---- MODULE Spec2Model ----
(***************************************************************************)
(* Model of lohost's DNS interposition:                                    *)
(*   src/dylib/lohost_dns_full.c   (macOS: getaddrinfo + dlsym hooks and   *)
(*                                  the getaddrinfo_async_start hook)      *)
(*   src/native/linux/lohost_dns.c (Linux: LD_PRELOAD getaddrinfo)         *)
(*                                                                         *)
(* C strings are sequences of one-character strings.  A pointer that may   *)
(* be NULL is a sequence of length 0 (NULL) or 1 (the pointee).  Function  *)
(* addresses and heap addresses are naturals, 0 being NULL.                *)
(***************************************************************************)
EXTENDS Integers, Sequences, FiniteSets, TLC

VARIABLES
    real_async_start,   \* dylib: static getaddrinfo_async_start_fn real_async_start
    real_getaddrinfo,   \* linux: static int (*real_getaddrinfo)(...)
    heap,               \* addresses handed out by calloc and not freed
    hookHandedOut,      \* hooked_dlsym has returned &hooked_getaddrinfo_async_start
    firstLookup,        \* history: first non-null real dlsym result for the async symbol
    regWrites,          \* history: number of stores to real_async_start
    last,               \* observation of the most recent completed call
    pc,                 \* threaded hooked_dlsym: position of each thread
    t_handle,           \* threaded hooked_dlsym: argument handle
    t_symbol,           \* threaded hooked_dlsym: argument symbol
    t_result,           \* threaded hooked_dlsym: local result
    t_ret,              \* threaded hooked_dlsym: value returned by the last call
    t_calls             \* threaded hooked_dlsym: calls started by each thread

vars == <<real_async_start, real_getaddrinfo, heap, hookHandedOut, firstLookup,
          regWrites, last, pc, t_handle, t_symbol, t_result, t_ret, t_calls>>

-----------------------------------------------------------------------------
(* Bounds of the model *)

MaxAllocs == 4          \* heap capacity in objects; calloc fails when exhausted
NumThreads == 2         \* threads running hooked_dlsym concurrently
MaxCallsPerThread == 2  \* hooked_dlsym calls each thread makes

-----------------------------------------------------------------------------
(* Constants of the program and of the platform headers it uses *)

NULL == 0
AF_INET == 2
AF_INET6 == 30          \* <sys/socket.h> on Darwin
LINUX_AF_INET6 == 10    \* <bits/socket.h> on Linux
SOCK_STREAM == 1
IPPROTO_TCP == 6
SizeofSockaddrIn == 16
EAI_SYSTEM == -11
AsyncFailStatus == -1
HookAddr == 9           \* (void*)hooked_getaddrinfo_async_start

-----------------------------------------------------------------------------
(* C strings *)

NullPtr == <<>>
Ptr(x) == <<x>>
IsNull(p) == p = <<>>
Deref(p) == p[1]

DotLocalhost == <<".", "l", "o", "c", "a", "l", "h", "o", "s", "t">>
LoopbackText == <<"1", "2", "7", ".", "0", ".", "0", ".", "1">>
AsyncSymbol == "getaddrinfo_async_start"

strlen(s) == Len(s)

\* strcmp is only ever compared with 0: 0 iff the strings are byte-equal.
strcmp(a, b) == IF a = b THEN 0 ELSE 1

\* hostname + len - 10
Tail10(s) == SubSeq(s, strlen(s) - 10 + 1, strlen(s))

IsDigit(c) == c \in {"0", "1", "2", "3", "4", "5", "6", "7", "8", "9"}
DigitVal(c) ==
    CASE c = "0" -> 0 [] c = "1" -> 1 [] c = "2" -> 2 [] c = "3" -> 3
      [] c = "4" -> 4 [] c = "5" -> 5 [] c = "6" -> 6 [] c = "7" -> 7
      [] c = "8" -> 8 [] c = "9" -> 9
IsSpace(c) == c \in {" ", "\t", "\n"}

RECURSIVE SkipSpace(_, _)
SkipSpace(s, i) ==
    IF i <= Len(s) /\ IsSpace(s[i]) THEN SkipSpace(s, i + 1) ELSE i

RECURSIVE ParseDigits(_, _, _)
ParseDigits(s, i, acc) ==
    IF i <= Len(s) /\ IsDigit(s[i])
    THEN ParseDigits(s, i + 1, acc * 10 + DigitVal(s[i]))
    ELSE acc

\* atoi: leading white space, an optional sign, then the longest run of
\* digits; 0 when there is none.  (Values beyond int are undefined in C; the
\* service strings of the model have at most 6 characters.)
atoi(s) ==
    LET i0 == SkipSpace(s, 1)
        signed == i0 <= Len(s) /\ s[i0] \in {"+", "-"}
        neg == i0 <= Len(s) /\ s[i0] = "-"
        v == ParseDigits(s, IF signed THEN i0 + 1 ELSE i0, 0)
    IN  IF neg THEN 0 - v ELSE v

\* htons: the argument is converted to uint16_t; the result is laid out in
\* memory high byte first.  sin_port is kept as that pair of bytes.
htons(x) == << (x % 65536) \div 256, x % 256 >>
ntohs(b) == b[1] * 256 + b[2]

\* inet_pton(AF_INET, text): dotted quad to four bytes.
RECURSIVE SplitDots(_, _, _, _)
SplitDots(s, i, cur, acc) ==
    IF i > Len(s) THEN Append(acc, cur)
    ELSE IF s[i] = "." THEN SplitDots(s, i + 1, 0, Append(acc, cur))
    ELSE SplitDots(s, i + 1, cur * 10 + DigitVal(s[i]), acc)
inet_pton(text) == SplitDots(text, 1, 0, <<>>)

-----------------------------------------------------------------------------
(* calloc / free on a bounded heap *)

Addrs == 1..MaxAllocs
FreeAddrs(h) == Addrs \ h
MinOf(S) == CHOOSE a \in S : \A b \in S : a <= b

\* calloc returns NULL when the allocator fails (fail) or memory is exhausted.
\* Mutant: free releases nothing.
free_Nothing(h, p) == h

\* free(ai)
free(h, p) == h \ {p}

calloc(h, fail) == IF fail \/ FreeAddrs(h) = {} THEN NULL ELSE MinOf(FreeAddrs(h))

-----------------------------------------------------------------------------
(* Hostname classifier *)

\* Mutant: the suffix is compared without its leading dot ("localhost").
is_localhost_domain_NoDot(hostname) ==
    IF IsNull(hostname) THEN 0
    ELSE LET len == strlen(Deref(hostname))
         IN  IF len >= 9 /\ strcmp(SubSeq(Deref(hostname), len - 8, len),
                                   SubSeq(DotLocalhost, 2, 10)) = 0
             THEN 1 ELSE 0

is_localhost_domain(hostname) ==
    IF IsNull(hostname) THEN 0
    ELSE LET len == strlen(Deref(hostname))
         IN  IF len >= 10 /\ strcmp(Tail10(Deref(hostname)), DotLocalhost) = 0
             THEN 1 ELSE 0

linux_is_localhost_domain(hostname) ==
    IF IsNull(hostname) THEN 0
    ELSE LET len == strlen(Deref(hostname))
         IN  IF len >= 10 /\ strcmp(Tail10(Deref(hostname)), DotLocalhost) = 0
             THEN 1 ELSE 0

-----------------------------------------------------------------------------
(* Synthetic record builder.  The result is [result, heap]: result is NullPtr *)
(* or a pointer to the addrinfo, heap is the heap after the call.             *)

\* Mutant: the sign of the parsed port is not tested.
SockPort_NoSignTest(service) ==
    IF IsNull(service) THEN <<0, 0>>
    ELSE htons(atoi(Deref(service)))

SockPort(service) ==
    IF IsNull(service) THEN <<0, 0>>      \* calloc'ed, never assigned
    ELSE LET port == atoi(Deref(service))
         IN  htons(IF port > 0 THEN port ELSE 0)

HintSocktype(hints) == IF IsNull(hints) THEN SOCK_STREAM ELSE Deref(hints).ai_socktype
HintProtocol(hints) == IF IsNull(hints) THEN IPPROTO_TCP ELSE Deref(hints).ai_protocol

\* if (ai->ai_socktype == 0) ai->ai_socktype = SOCK_STREAM;
DefaultSocktype(socktype) == IF socktype = 0 THEN SOCK_STREAM ELSE socktype

\* if (ai->ai_protocol == 0) ai->ai_protocol = IPPROTO_TCP;
DefaultProtocol(protocol) == IF protocol = 0 THEN IPPROTO_TCP ELSE protocol

make_localhost_result(service, hints, h, failAi, failSa) ==
    LET ai == calloc(h, failAi)
        h1 == IF ai = NULL THEN h ELSE h \cup {ai}
        sa == calloc(h1, failSa)
        h2 == IF sa = NULL THEN h1 ELSE h1 \cup {sa}
    IN  IF ai = NULL THEN [result |-> NullPtr, heap |-> h]
        ELSE IF sa = NULL THEN [result |-> NullPtr, heap |-> free(h1, ai)]
        ELSE [result |-> Ptr(
                [at |-> ai,
                 ai_flags |-> IF IsNull(hints) THEN 0 ELSE Deref(hints).ai_flags,
                 ai_family |-> AF_INET,
                 ai_socktype |-> DefaultSocktype(HintSocktype(hints)),
                 ai_protocol |-> DefaultProtocol(HintProtocol(hints)),
                 ai_addrlen |-> SizeofSockaddrIn,
                 ai_addr |-> [at |-> sa,
                              sin_len |-> SizeofSockaddrIn,
                              sin_family |-> AF_INET,
                              sin_addr |-> inet_pton(LoopbackText),
                              sin_port |-> SockPort(service)],
                 ai_canonname |-> NULL,
                 ai_next |-> NULL]),
              heap |-> h2]

\* The Linux sockaddr_in has no sin_len member; its first two bytes are the
\* family.  The field is kept in the record with the calloc'ed value 0.
linux_make_localhost_result(service, hints, h, failAi, failSa) ==
    LET ai == calloc(h, failAi)
        h1 == IF ai = NULL THEN h ELSE h \cup {ai}
        sa == calloc(h1, failSa)
        h2 == IF sa = NULL THEN h1 ELSE h1 \cup {sa}
    IN  IF ai = NULL THEN [result |-> NullPtr, heap |-> h]
        ELSE IF sa = NULL THEN [result |-> NullPtr, heap |-> free(h1, ai)]
        ELSE [result |-> Ptr(
                [at |-> ai,
                 ai_flags |-> IF IsNull(hints) THEN 0 ELSE Deref(hints).ai_flags,
                 ai_family |-> AF_INET,
                 ai_socktype |-> DefaultSocktype(HintSocktype(hints)),
                 ai_protocol |-> DefaultProtocol(HintProtocol(hints)),
                 ai_addrlen |-> SizeofSockaddrIn,
                 ai_addr |-> [at |-> sa,
                              sin_len |-> 0,
                              sin_family |-> AF_INET,
                              sin_addr |-> inet_pton(LoopbackText),
                              sin_port |-> SockPort(service)],
                 ai_canonname |-> NULL,
                 ai_next |-> NULL]),
              heap |-> h2]

-----------------------------------------------------------------------------
(* Synchronous hook of the dylib.  The outcome of one call:                   *)
(*   ret        the value returned                                            *)
(*   res_out    what the hook itself stored in *res (NullPtr: nothing)        *)
(*   real_calls the calls made to the real getaddrinfo, with their arguments  *)
(*              and the status each returned (realRet)                        *)
(*   builds     the results of the calls made to make_localhost_result        *)
(*   heap       the heap after the call                                       *)

\* fallthrough: return getaddrinfo(node, service, hints, res);
Fallthrough(node, service, hints, res, h, builds, realRet) ==
    [ret |-> realRet,
     res_out |-> NullPtr,
     real_calls |-> << [node |-> node, service |-> service, hints |-> hints,
                        res |-> res, ret |-> realRet] >>,
     builds |-> builds,
     heap |-> h]

\* Mutant: returns 0 without storing the record in *res.
Synthetic_NoStore(result, h) ==
    [ret |-> 0,
     res_out |-> NullPtr,
     real_calls |-> <<>>,
     builds |-> <<result>>,
     heap |-> h]

\* *res = result; return 0;
Synthetic(result, h) ==
    [ret |-> 0,
     res_out |-> result,
     real_calls |-> <<>>,
     builds |-> <<result>>,
     heap |-> h]

\* Mutant: the requested family is ignored.
WantsInet6_Never(hints) == FALSE

\* hints && hints->ai_family == AF_INET6
WantsInet6(hints) == ~IsNull(hints) /\ Deref(hints).ai_family = AF_INET6

hooked_getaddrinfo(node, service, hints, res, h, failAi, failSa, realRet) ==
    IF is_localhost_domain(node) # 0
    THEN IF WantsInet6(hints)
         THEN Fallthrough(node, service, hints, res, h, <<>>, realRet)
         ELSE LET b == make_localhost_result(service, hints, h, failAi, failSa)
              IN  IF ~IsNull(b.result)
                  THEN Synthetic(b.result, b.heap)
                  ELSE Fallthrough(node, service, hints, res, b.heap, <<b.result>>, realRet)
    ELSE Fallthrough(node, service, hints, res, h, <<>>, realRet)

-----------------------------------------------------------------------------
(* Synchronous hook of the Linux library.  rg is the cached real_getaddrinfo, *)
(* dlsymRet what dlsym(RTLD_NEXT, "getaddrinfo") returns if it is called.     *)
(* The outcome has two more fields: real_getaddrinfo (the cache after the     *)
(* call) and lookups (the number of dlsym calls made).                        *)

LinuxWantsInet6(hints) == ~IsNull(hints) /\ Deref(hints).ai_family = LINUX_AF_INET6

LinuxFallthrough(node, service, hints, res, h, builds, realRet, rg, lookups) ==
    [ret |-> realRet,
     res_out |-> NullPtr,
     real_calls |-> << [fn |-> rg, node |-> node, service |-> service,
                        hints |-> hints, res |-> res, ret |-> realRet] >>,
     builds |-> builds,
     heap |-> h,
     real_getaddrinfo |-> rg,
     lookups |-> lookups]

\* *res = result; return 0;
LinuxSynthetic(result, h, rg, lookups) ==
    [ret |-> 0,
     res_out |-> result,
     real_calls |-> <<>>,
     builds |-> <<result>>,
     heap |-> h,
     real_getaddrinfo |-> rg,
     lookups |-> lookups]

\* Mutant: the missing resolver is reported as success.
LinuxNoResolver_ReturnsZero(h, rg, lookups) ==
    [ret |-> 0,
     res_out |-> NullPtr,
     real_calls |-> <<>>,
     builds |-> <<>>,
     heap |-> h,
     real_getaddrinfo |-> rg,
     lookups |-> lookups]

\* debug_log("ERROR: Could not find real getaddrinfo"); return EAI_SYSTEM;
LinuxNoResolver(h, rg, lookups) ==
    [ret |-> EAI_SYSTEM,
     res_out |-> NullPtr,
     real_calls |-> <<>>,
     builds |-> <<>>,
     heap |-> h,
     real_getaddrinfo |-> rg,
     lookups |-> lookups]

\* Mutant: the symbol is looked up on every call.
CachedResolver_AlwaysLookup(rg, dlsymRet) == dlsymRet

\* if (!real_getaddrinfo) real_getaddrinfo = dlsym(RTLD_NEXT, "getaddrinfo");
CachedResolver(rg, dlsymRet) == IF rg = NULL THEN dlsymRet ELSE rg

linux_getaddrinfo(node, service, hints, res, h, failAi, failSa, realRet, rg, dlsymRet) ==
    LET lookups == IF rg = NULL THEN 1 ELSE 0
        rg1 == CachedResolver(rg, dlsymRet)
    IN  IF rg1 = NULL
        THEN LinuxNoResolver(h, rg1, lookups)
        ELSE IF linux_is_localhost_domain(node) # 0
        THEN IF LinuxWantsInet6(hints)
             THEN LinuxFallthrough(node, service, hints, res, h, <<>>, realRet, rg1, lookups)
             ELSE LET b == linux_make_localhost_result(service, hints, h, failAi, failSa)
                  IN  IF ~IsNull(b.result)
                      THEN LinuxSynthetic(b.result, b.heap, rg1, lookups)
                      ELSE LinuxFallthrough(node, service, hints, res, b.heap,
                                            <<b.result>>, realRet, rg1, lookups)
        ELSE LinuxFallthrough(node, service, hints, res, h, <<>>, realRet, rg1, lookups)

-----------------------------------------------------------------------------
(* Asynchronous hook (the Replacement Entry Point).  reg is real_async_start  *)
(* as read by the call.  The outcome of one call:                             *)
(*   ret        the value returned                                            *)
(*   cb_calls   the callback invocations made by the hook itself              *)
(*   port_out   what the hook stored in *port (NullPtr: nothing)              *)
(*   real_calls the calls made through real_async_start, with their arguments *)

\* Mutant: the real entry point's status is dropped and 0 returned.
AsyncDelegate_DropsStatus(port, node, service, hints, callback, context, reg, h, builds, realRet) ==
    [ret |-> 0,
     cb_calls |-> <<>>,
     port_out |-> NullPtr,
     real_calls |-> << [fn |-> reg, port |-> port, node |-> node, service |-> service,
                        hints |-> hints, callback |-> callback, context |-> context,
                        ret |-> realRet] >>,
     builds |-> builds,
     heap |-> h]

\* return real_async_start(port, node, service, hints, callback, context);
AsyncDelegate(port, node, service, hints, callback, context, reg, h, builds, realRet) ==
    [ret |-> realRet,
     cb_calls |-> <<>>,
     port_out |-> NullPtr,
     real_calls |-> << [fn |-> reg, port |-> port, node |-> node, service |-> service,
                        hints |-> hints, callback |-> callback, context |-> context,
                        ret |-> realRet] >>,
     builds |-> builds,
     heap |-> h]

\* Mutant: the failure is returned without being reported to the callback.
AsyncFail_Silent(callback, context, h, builds) ==
    [ret |-> AsyncFailStatus,
     cb_calls |-> <<>>,
     port_out |-> NullPtr,
     real_calls |-> <<>>,
     builds |-> builds,
     heap |-> h]

\* if (callback) callback(-1, NULL, context); return -1;
AsyncFail(callback, context, h, builds) ==
    [ret |-> AsyncFailStatus,
     cb_calls |-> IF callback # NULL
                  THEN << [fn |-> callback, status |-> AsyncFailStatus,
                           res |-> NullPtr, context |-> context] >>
                  ELSE <<>>,
     port_out |-> NullPtr,
     real_calls |-> <<>>,
     builds |-> builds,
     heap |-> h]

\* Mutant: *port is left unwritten.
AsyncSynthetic_NoPort(port, callback, context, result, h) ==
    [ret |-> 0,
     cb_calls |-> IF callback # NULL
                  THEN << [fn |-> callback, status |-> 0,
                           res |-> result, context |-> context] >>
                  ELSE <<>>,
     port_out |-> NullPtr,
     real_calls |-> <<>>,
     builds |-> <<result>>,
     heap |-> h]

\* if (callback) callback(0, result, context); if (port) *port = 0; return 0;
AsyncSynthetic(port, callback, context, result, h) ==
    [ret |-> 0,
     cb_calls |-> IF callback # NULL
                  THEN << [fn |-> callback, status |-> 0,
                           res |-> result, context |-> context] >>
                  ELSE <<>>,
     port_out |-> IF port # NULL THEN Ptr(0) ELSE NullPtr,
     real_calls |-> <<>>,
     builds |-> <<result>>,
     heap |-> h]

\* Mutant: after delegating, the fallback error is reported as well.
AsyncFallback_NoReturn(port, node, service, hints, callback, context, reg, h, builds, realRet) ==
    IF reg # NULL
    THEN [AsyncDelegate(port, node, service, hints, callback, context, reg, h, builds, realRet)
            EXCEPT !.cb_calls = AsyncFail(callback, context, h, builds).cb_calls]
    ELSE AsyncFail(callback, context, h, builds)

\* if (real_async_start) ... else the fallback error
AsyncFallback(port, node, service, hints, callback, context, reg, h, builds, realRet) ==
    IF reg # NULL
    THEN AsyncDelegate(port, node, service, hints, callback, context, reg, h, builds, realRet)
    ELSE AsyncFail(callback, context, h, builds)

hooked_getaddrinfo_async_start(port, node, service, hints, callback, context, reg, h, failAi, failSa, realRet) ==
    IF is_localhost_domain(node) # 0
    THEN LET b == make_localhost_result(service, hints, h, failAi, failSa)
         IN  IF ~IsNull(b.result)
             THEN AsyncSynthetic(port, callback, context, b.result, b.heap)
             ELSE AsyncFallback(port, node, service, hints, callback, context,
                                reg, b.heap, <<b.result>>, realRet)
    ELSE AsyncFallback(port, node, service, hints, callback, context,
                       reg, h, <<>>, realRet)

-----------------------------------------------------------------------------
(* dlsym hook *)

\* Mutant: the name is not compared, every non-null symbol is intercepted.
IsAsyncSymbol_AnySymbol(symbol) == ~IsNull(symbol)

\* symbol && strcmp(symbol, "getaddrinfo_async_start") == 0
IsAsyncSymbol(symbol) == ~IsNull(symbol) /\ strcmp(Deref(symbol), AsyncSymbol) = 0

\* Mutant: the store is not guarded by !real_async_start.
ShouldCapture_NoUnsetTest(result, reg) == result # NULL

\* result && !real_async_start
ShouldCapture(result, reg) == result # NULL /\ reg = NULL

\* The outcome of one call: ret the value returned, reg real_async_start
\* after the call, stores the number of stores to real_async_start,
\* dlsym_calls the calls made to the real dlsym.
hooked_dlsym(handle, symbol, reg, result) ==
    IF IsAsyncSymbol(symbol)
    THEN [ret |-> HookAddr,
          reg |-> IF ShouldCapture(result, reg) THEN result ELSE reg,
          stores |-> IF ShouldCapture(result, reg) THEN 1 ELSE 0,
          dlsym_calls |-> << [handle |-> handle, symbol |-> symbol] >>]
    ELSE [ret |-> result,
          reg |-> reg,
          stores |-> 0,
          dlsym_calls |-> << [handle |-> handle, symbol |-> symbol] >>]

-----------------------------------------------------------------------------
(* Inputs of the calls *)

ALocalhost == <<"a">> \o DotLocalhost
BCom == <<"b", ".", "c", "o", "m">>
Nodes == {NullPtr, Ptr(<<>>), Ptr(ALocalhost), Ptr(BCom)}
Services == {NullPtr, Ptr(<<"8", "0">>)}

HintsOf(inet6) ==
    {NullPtr,
     Ptr([ai_flags |-> 1, ai_family |-> AF_INET, ai_socktype |-> 2, ai_protocol |-> 0]),
     Ptr([ai_flags |-> 0, ai_family |-> inet6, ai_socktype |-> 1, ai_protocol |-> 6])}
ResPtrs == {1}                  \* struct addrinfo **res
PortPtrs == {NULL, 1}           \* mach_port_t *port
Callbacks == {NULL, 1}          \* getaddrinfo_async_callback
Contexts == {1}                 \* void *context
Handles == {1, 2}               \* void *handle
Symbols == {NullPtr, Ptr(AsyncSymbol), Ptr("getaddrinfo"),
            Ptr("getaddrinfo_async_start2")}
FnAddrs == {1, 2}               \* addresses the real dlsym can return
RealStatuses == {0, 8}          \* statuses of the real resolvers
LinuxFnAddrs == {1}             \* address of the real getaddrinfo
AllocFaults == {<<FALSE, FALSE>>, <<TRUE, FALSE>>, <<FALSE, TRUE>>}

\* The environment's choices are drawn only where the call consults them: the
\* allocator for a reserved name, the real resolver's status when it is called,
\* dlsym(RTLD_NEXT, ...) when the cache is empty.
FaultsFor(node) == IF is_localhost_domain(node) # 0 THEN AllocFaults ELSE {<<FALSE, FALSE>>}
StatusConsulted(out, realRet) == out.real_calls = <<>> => realRet = 0
LinuxLookups(rg) == IF rg = NULL THEN {NULL} \cup LinuxFnAddrs ELSE {NULL}

Threads == 1..NumThreads

-----------------------------------------------------------------------------
(* Initial state: both libraries loaded, nothing captured, nothing allocated *)

Init ==
    /\ real_async_start = NULL
    /\ real_getaddrinfo = NULL
    /\ heap = {}
    /\ hookHandedOut = FALSE
    /\ firstLookup = NULL
    /\ regWrites = 0
    /\ last = [op |-> "none"]
    /\ pc = [t \in Threads |-> "idle"]
    /\ t_handle = [t \in Threads |-> NULL]
    /\ t_symbol = [t \in Threads |-> NullPtr]
    /\ t_result = [t \in Threads |-> NULL]
    /\ t_ret = [t \in Threads |-> NULL]
    /\ t_calls = [t \in Threads |-> 0]

threadVars == <<pc, t_handle, t_symbol, t_result, t_ret, t_calls>>

\* The history of lookups: the first non-null real result for the async symbol.
FirstLookupAfter(symbol, result) ==
    IF firstLookup = NULL /\ ~IsNull(symbol) /\ Deref(symbol) = AsyncSymbol
    THEN result ELSE firstLookup

-----------------------------------------------------------------------------
(* Whole calls, one action each *)

HookedGetaddrinfo ==
    \E node \in Nodes, service \in Services, hints \in HintsOf(AF_INET6),
       res \in ResPtrs :
      \E f \in FaultsFor(node), realRet \in RealStatuses :
        LET out == hooked_getaddrinfo(node, service, hints, res, heap, f[1], f[2], realRet)
        IN  /\ StatusConsulted(out, realRet)
            /\ heap' = out.heap
            /\ last' = [op |-> "hooked_getaddrinfo", node |-> node, service |-> service,
                        hints |-> hints, res |-> res, faults |-> f,
                        heap_before |-> heap, reg_before |-> real_async_start,
                        out |-> out]
            /\ UNCHANGED <<real_async_start, real_getaddrinfo, hookHandedOut,
                           firstLookup, regWrites, threadVars>>

LinuxGetaddrinfo ==
    \E node \in Nodes, service \in Services, hints \in HintsOf(LINUX_AF_INET6),
       res \in ResPtrs, dlsymRet \in LinuxLookups(real_getaddrinfo) :
      \E f \in FaultsFor(node), realRet \in RealStatuses :
        LET out == linux_getaddrinfo(node, service, hints, res, heap, f[1], f[2],
                                     realRet, real_getaddrinfo, dlsymRet)
        IN  /\ StatusConsulted(out, realRet)
            /\ heap' = out.heap
            /\ real_getaddrinfo' = out.real_getaddrinfo
            /\ last' = [op |-> "linux_getaddrinfo", node |-> node, service |-> service,
                        hints |-> hints, res |-> res, faults |-> f,
                        dlsym_ret |-> dlsymRet,
                        heap_before |-> heap, rg_before |-> real_getaddrinfo,
                        reg_before |-> real_async_start, out |-> out]
            /\ UNCHANGED <<real_async_start, hookHandedOut, firstLookup, regWrites,
                           threadVars>>

\* The Replacement Entry Point is static: a caller has its address only once
\* hooked_dlsym has returned it.
HookedAsyncStart ==
    /\ hookHandedOut
    /\ \E port \in PortPtrs, node \in Nodes, service \in Services,
          hints \in HintsOf(AF_INET6), callback \in Callbacks, context \in Contexts :
       \E f \in FaultsFor(node), realRet \in RealStatuses :
        LET out == hooked_getaddrinfo_async_start(port, node, service, hints, callback,
                        context, real_async_start, heap, f[1], f[2], realRet)
        IN  /\ StatusConsulted(out, realRet)
            /\ heap' = out.heap
            /\ last' = [op |-> "hooked_getaddrinfo_async_start", port |-> port,
                        node |-> node, service |-> service, hints |-> hints,
                        callback |-> callback, context |-> context,
                        faults |-> f, heap_before |-> heap,
                        reg_before |-> real_async_start, out |-> out]
            /\ UNCHANGED <<real_async_start, real_getaddrinfo, hookHandedOut,
                           firstLookup, regWrites, threadVars>>

HookedDlsym ==
    \E handle \in Handles, symbol \in Symbols, result \in {NULL} \cup FnAddrs :
        LET out == hooked_dlsym(handle, symbol, real_async_start, result)
        IN  /\ real_async_start' = out.reg
            /\ regWrites' = regWrites + out.stores
            /\ hookHandedOut' = (hookHandedOut \/ out.ret = HookAddr)
            /\ firstLookup' = FirstLookupAfter(symbol, result)
            /\ last' = [op |-> "hooked_dlsym", handle |-> handle, symbol |-> symbol,
                        result |-> result, reg_before |-> real_async_start,
                        out |-> out]
            /\ UNCHANGED <<real_getaddrinfo, heap, threadVars>>

Next == HookedGetaddrinfo \/ LinuxGetaddrinfo \/ HookedAsyncStart \/ HookedDlsym

Spec == Init /\ [][Next]_vars

-----------------------------------------------------------------------------
(* hooked_dlsym run by several threads, one step per access to the shared   *)
(* register: the call to the real dlsym, the test of real_async_start, the   *)
(* store to it, the return.                                                  *)

T_Call(t) ==
    /\ pc[t] = "idle"
    /\ t_calls[t] < MaxCallsPerThread
    /\ \E handle \in Handles, symbol \in {Ptr(AsyncSymbol), Ptr("getaddrinfo")},
          result \in {NULL} \cup FnAddrs :
        /\ t_handle' = [t_handle EXCEPT ![t] = handle]
        /\ t_symbol' = [t_symbol EXCEPT ![t] = symbol]
        /\ t_result' = [t_result EXCEPT ![t] = result]
        /\ firstLookup' = FirstLookupAfter(symbol, result)
    /\ t_calls' = [t_calls EXCEPT ![t] = @ + 1]
    /\ t_ret' = [t_ret EXCEPT ![t] = NULL]
    /\ pc' = [pc EXCEPT ![t] = "test"]
    /\ UNCHANGED <<real_async_start, real_getaddrinfo, heap, hookHandedOut,
                   regWrites, last>>

T_Test(t) ==
    /\ pc[t] = "test"
    /\ pc' = [pc EXCEPT ![t] =
                IF IsAsyncSymbol(t_symbol[t]) /\ ShouldCapture(t_result[t], real_async_start)
                THEN "store" ELSE "ret"]
    /\ UNCHANGED <<real_async_start, real_getaddrinfo, heap, hookHandedOut,
                   firstLookup, regWrites, last, t_handle, t_symbol, t_result,
                   t_ret, t_calls>>

T_Store(t) ==
    /\ pc[t] = "store"
    /\ real_async_start' = t_result[t]
    /\ regWrites' = regWrites + 1
    /\ pc' = [pc EXCEPT ![t] = "ret"]
    /\ UNCHANGED <<real_getaddrinfo, heap, hookHandedOut, firstLookup, last,
                   t_handle, t_symbol, t_result, t_ret, t_calls>>

T_Return(t) ==
    /\ pc[t] = "ret"
    /\ t_ret' = [t_ret EXCEPT ![t] =
                    IF IsAsyncSymbol(t_symbol[t]) THEN HookAddr ELSE t_result[t]]
    /\ hookHandedOut' = (hookHandedOut \/ IsAsyncSymbol(t_symbol[t]))
    /\ pc' = [pc EXCEPT ![t] = "idle"]
    /\ UNCHANGED <<real_async_start, real_getaddrinfo, heap, firstLookup, regWrites,
                   last, t_handle, t_symbol, t_result, t_calls>>

NextConc == \E t \in Threads : T_Call(t) \/ T_Test(t) \/ T_Store(t) \/ T_Return(t)

SpecConc == Init /\ [][NextConc]_vars

-----------------------------------------------------------------------------
(* Vocabulary of the properties, stated on the observation of the last call *)

\* The hostname ends in ".localhost": some prefix followed by the suffix.
ReservedName(p) ==
    /\ ~IsNull(p)
    /\ \E k \in 0..Len(Deref(p)) : Deref(p) = SubSeq(Deref(p), 1, k) \o DotLocalhost

IsSync(l) == l.op \in {"hooked_getaddrinfo", "linux_getaddrinfo"}
IsAsync(l) == l.op = "hooked_getaddrinfo_async_start"
IsDlsym(l) == l.op = "hooked_dlsym"

Inet6Of(l) == IF l.op = "linux_getaddrinfo" THEN LINUX_AF_INET6 ELSE AF_INET6
HintsInet6(l) == ~IsNull(l.hints) /\ Deref(l.hints).ai_family = Inet6Of(l)

BuildOk(l) == Len(l.out.builds) = 1 /\ ~IsNull(l.out.builds[1])
BuildFailed(l) == Len(l.out.builds) = 1 /\ IsNull(l.out.builds[1])

Loopback == <<127, 0, 0, 1>>

-----------------------------------------------------------------------------
\* C1: in any sequence of hooked_dlsym calls real_async_start is unset as long
\* as no lookup of "getaddrinfo_async_start" has returned non-null, and
\* otherwise equals the address returned by the first such lookup; once set it
\* never changes and is never reset.
C1_WriteOnceSequential ==
    /\ [](real_async_start = firstLookup)
    /\ [][real_async_start # NULL => real_async_start' = real_async_start]_vars

\* A later lookup of the symbol returned another non-null address, or null,
\* and the register kept the first one.
C1_Witness ==
    /\ IsDlsym(last)
    /\ last.symbol = Ptr(AsyncSymbol)
    /\ last.reg_before # NULL
    /\ last.result # last.reg_before
    /\ real_async_start = last.reg_before

\* C2: with hooked_dlsym run by concurrent threads, the register is written at
\* most once in every interleaving of the test and the store.
C2_WrittenAtMostOnce == regWrites <= 1

\* C3: a synchronous call with a reserved hostname, hints absent or not IPv6,
\* and a successful build returns 0, stores in *res the single IPv4 record
\* for 127.0.0.1 (no next record, no canonical name) and makes no call to the
\* real resolver.
C3_SyncSynthetic ==
    (IsSync(last) /\ ReservedName(last.node) /\ ~HintsInet6(last) /\ BuildOk(last))
    => /\ last.out.ret = 0
       /\ ~IsNull(last.out.res_out)
       /\ last.out.res_out = last.out.builds[1]
       /\ Deref(last.out.res_out).ai_family = AF_INET
       /\ Deref(last.out.res_out).ai_addr.sin_family = AF_INET
       /\ Deref(last.out.res_out).ai_addr.sin_addr = Loopback
       /\ Deref(last.out.res_out).ai_next = NULL
       /\ Deref(last.out.res_out).ai_canonname = NULL
       /\ last.out.real_calls = <<>>

C3_Witness ==
    /\ last.op = "linux_getaddrinfo"
    /\ last.node = Ptr(ALocalhost)
    /\ ~IsNull(last.hints)
    /\ BuildOk(last)
    /\ last.out.ret = 0

\* The call was forwarded: the real resolver was called exactly once with the
\* caller's four arguments, its status is the call's, *res was not stored to.
Forwarded(l) ==
    /\ Len(l.out.real_calls) = 1
    /\ l.out.real_calls[1].node = l.node
    /\ l.out.real_calls[1].service = l.service
    /\ l.out.real_calls[1].hints = l.hints
    /\ l.out.real_calls[1].res = l.res
    /\ l.out.ret = l.out.real_calls[1].ret
    /\ IsNull(l.out.res_out)

SyncFallbackCase(l) == ~ReservedName(l.node) \/ HintsInet6(l) \/ BuildFailed(l)

\* The real resolver is known: always for the dylib (it is linked), on Linux
\* when the cached pointer is set or the lookup of this call found it.
ResolverKnown(l) == l.op = "linux_getaddrinfo" => l.out.real_getaddrinfo # NULL

\* C4 as claimed: every synchronous call with a hostname that is not reserved,
\* or IPv6 hints, or a failed build is forwarded to the real resolver.
C4_AlwaysForwarded ==
    (IsSync(last) /\ SyncFallbackCase(last))
    => Forwarded(last) /\ (HintsInet6(last) => last.out.builds = <<>>)

\* C4 amended: such a call is forwarded whenever the real resolver is known; on
\* Linux, when its lookup fails, the call returns EAI_SYSTEM, makes no call to
\* a resolver, builds nothing and stores nothing to *res.
C4_ForwardedWhenResolverKnown ==
    IsSync(last)
    => /\ (SyncFallbackCase(last) /\ ResolverKnown(last))
          => /\ Forwarded(last)
             /\ (HintsInet6(last) => last.out.builds = <<>>)
             /\ (last.op = "linux_getaddrinfo"
                 => last.out.real_calls[1].fn = last.out.real_getaddrinfo)
       /\ ~ResolverKnown(last)
          => /\ last.out.ret = EAI_SYSTEM
             /\ last.out.real_calls = <<>>
             /\ last.out.builds = <<>>
             /\ IsNull(last.out.res_out)

\* A reserved hostname with IPv6 hints was forwarded by the dylib.
C4_Witness ==
    /\ last.op = "hooked_getaddrinfo"
    /\ last.node = Ptr(ALocalhost)
    /\ HintsInet6(last)
    /\ Len(last.out.real_calls) = 1
    /\ last.out.ret # 0

\* C5: an asynchronous call with a reserved hostname, a non-null callback and
\* a successful build invokes the callback exactly once, within the call,
\* with status 0, the non-null record and the caller's context; stores 0 in
\* *port when port is non-null; returns 0; and does not call the captured
\* real entry point.
C5_AsyncSynthetic ==
    (IsAsync(last) /\ ReservedName(last.node) /\ last.callback # NULL /\ BuildOk(last))
    => /\ last.out.cb_calls = << [fn |-> last.callback, status |-> 0,
                                  res |-> last.out.builds[1],
                                  context |-> last.context] >>
       /\ (last.port # NULL => last.out.port_out = Ptr(0))
       /\ last.out.ret = 0
       /\ last.out.real_calls = <<>>

C5_Witness ==
    /\ IsAsync(last)
    /\ last.node = Ptr(ALocalhost)
    /\ last.callback # NULL
    /\ last.port # NULL
    /\ last.reg_before # NULL
    /\ BuildOk(last)
    /\ Len(last.out.cb_calls) = 1

\* C6: an asynchronous call with a reserved hostname and IPv6 hints builds no
\* record, has no callback invocation with status 0 made by the replacement,
\* and takes the fallback branch: delegation when captured, the failure
\* callback otherwise.
C6_AsyncInet6Skips ==
    (IsAsync(last) /\ ReservedName(last.node) /\ HintsInet6(last))
    => /\ last.out.builds = <<>>
       /\ \A i \in 1..Len(last.out.cb_calls) : last.out.cb_calls[i].status # 0
       /\ (last.reg_before # NULL => Len(last.out.real_calls) = 1)
       /\ (last.reg_before = NULL => last.out.ret = AsyncFailStatus)

\* C7: an asynchronous call made after capture with a hostname that is not
\* reserved, or after a failed build, calls the captured real entry point
\* exactly once with the six arguments unmodified, returns its status, and
\* itself neither invokes the callback nor stores to *port.
C7_AsyncDelegation ==
    (IsAsync(last) /\ last.reg_before # NULL
       /\ (~ReservedName(last.node) \/ BuildFailed(last)))
    => /\ last.out.real_calls =
            << [fn |-> last.reg_before, port |-> last.port, node |-> last.node,
                service |-> last.service, hints |-> last.hints,
                callback |-> last.callback, context |-> last.context,
                ret |-> last.out.ret] >>
       /\ last.out.cb_calls = <<>>
       /\ IsNull(last.out.port_out)

C7_Witness ==
    /\ IsAsync(last)
    /\ last.reg_before # NULL
    /\ last.node = Ptr(BCom)
    /\ last.callback # NULL
    /\ last.port # NULL
    /\ Len(last.out.real_calls) = 1
    /\ last.out.ret # 0

\* C8: an asynchronous call made before capture that does not take the
\* synthetic path, with a non-null callback, invokes the callback exactly once
\* with status -1, a null record and the caller's context, returns -1, leaves
\* *port unwritten and calls through no function pointer.
C8_AsyncDegraded ==
    (IsAsync(last) /\ last.reg_before = NULL /\ last.callback # NULL
       /\ (~ReservedName(last.node) \/ BuildFailed(last)))
    => /\ last.out.cb_calls = << [fn |-> last.callback, status |-> -1,
                                  res |-> NullPtr, context |-> last.context] >>
       /\ last.out.ret = -1
       /\ IsNull(last.out.port_out)
       /\ last.out.real_calls = <<>>

C8_Witness ==
    /\ IsAsync(last)
    /\ last.reg_before = NULL
    /\ last.callback # NULL
    /\ last.port # NULL
    /\ BuildFailed(last)
    /\ last.out.ret = -1

\* C9: whenever hooked_dlsym returns the replacement entry point the real
\* entry point has been captured.
C9_HookOnlyWhenCaptured ==
    (IsDlsym(last) /\ last.out.ret = HookAddr) => real_async_start # NULL

\* C10: a hooked_dlsym call whose symbol is null or differs from
\* "getaddrinfo_async_start" returns the real dlsym's result for the same
\* handle and symbol, calls the real dlsym exactly once and leaves the capture
\* register as it was, captured or not.
C10_PassThrough ==
    (IsDlsym(last) /\ last.symbol # Ptr(AsyncSymbol))
    => /\ last.out.ret = last.result
       /\ last.out.dlsym_calls = << [handle |-> last.handle, symbol |-> last.symbol] >>
       /\ real_async_start = last.reg_before

C10_Witness ==
    /\ IsDlsym(last)
    /\ last.symbol = Ptr("getaddrinfo_async_start2")
    /\ last.reg_before # NULL
    /\ last.result # NULL
    /\ last.result # last.reg_before
    /\ last.out.ret = last.result

-----------------------------------------------------------------------------
(* The classifier and the builder applied to drawn arguments.  The initial   *)
(* states hold the arguments, the actions apply both files' functions.       *)

MaxPrefixLen == 2       \* longest generated prefix of a hostname

RECURSIVE SeqsUpTo(_, _)
SeqsUpTo(A, n) ==
    IF n = 0 THEN {<<>>}
    ELSE LET S == SeqsUpTo(A, n - 1)
         IN  S \cup {Append(x, a) : x \in S, a \in A}

Foo == <<"f", "o", "o">>
BareLocalhost == <<"l", "o", "c", "a", "l", "h", "o", "s", "t">>
UpperDotLocalhost == <<".", "L", "O", "C", "A", "L", "H", "O", "S", "T">>

HostTails ==
    {DotLocalhost, BareLocalhost, UpperDotLocalhost,
     DotLocalhost \o <<".">>,
     SubSeq(DotLocalhost, 1, 9),
     <<".", "L">> \o SubSeq(DotLocalhost, 3, 10),
     DotLocalhost \o DotLocalhost,
     <<>>}

Hostnames ==
    {NullPtr}
    \cup {Ptr(pre \o tail) : pre \in SeqsUpTo({"a", "."}, MaxPrefixLen), tail \in HostTails}
    \cup {Ptr(Foo \o DotLocalhost), Ptr(Foo \o BareLocalhost),
          Ptr(<<"x">> \o UpperDotLocalhost), Ptr(Foo \o DotLocalhost \o <<".">>)}

ClassifierArgs == {[op |-> "hostname", hostname |-> h] : h \in Hostnames}

PureServices ==
    {NullPtr, Ptr(<<>>), Ptr(<<"a", "b", "c">>), Ptr(<<"0">>), Ptr(<<"-", "5">>),
     Ptr(<<"8", "0">>), Ptr(<<"4", "4", "3">>), Ptr(<<"8", "0", "8", "0">>),
     Ptr(<<"6", "5", "5", "3", "5">>), Ptr(<<"6", "5", "5", "3", "6">>),
     Ptr(<<"7", "0", "0", "0", "0">>)}
PureHints ==
    {NullPtr} \cup
    {Ptr([ai_flags |-> fl, ai_family |-> fam, ai_socktype |-> st, ai_protocol |-> pr]) :
        fl \in {0, 1}, fam \in {0, AF_INET}, st \in {0, 1, 2}, pr \in {0, 6, 17}}
PureHeaps == {{}, {1, 2}}

BuilderArgs ==
    {[op |-> "build_args", service |-> sv, hints |-> hi, faults |-> f, heap_before |-> h] :
        sv \in PureServices, hi \in PureHints, f \in AllocFaults, h \in PureHeaps}

InitPure ==
    /\ real_async_start = NULL
    /\ real_getaddrinfo = NULL
    /\ last \in ClassifierArgs \cup BuilderArgs
    /\ heap = IF last.op = "build_args" THEN last.heap_before ELSE {}
    /\ hookHandedOut = FALSE
    /\ firstLookup = NULL
    /\ regWrites = 0
    /\ pc = [t \in Threads |-> "idle"]
    /\ t_handle = [t \in Threads |-> NULL]
    /\ t_symbol = [t \in Threads |-> NullPtr]
    /\ t_result = [t \in Threads |-> NULL]
    /\ t_ret = [t \in Threads |-> NULL]
    /\ t_calls = [t \in Threads |-> 0]

Classify ==
    /\ last.op = "hostname"
    /\ last' = [op |-> "is_localhost_domain", hostname |-> last.hostname,
                dylib |-> is_localhost_domain(last.hostname),
                linux |-> linux_is_localhost_domain(last.hostname)]
    /\ UNCHANGED <<real_async_start, real_getaddrinfo, heap, hookHandedOut,
                   firstLookup, regWrites, threadVars>>

Build ==
    /\ last.op = "build_args"
    /\ LET d == make_localhost_result(last.service, last.hints, heap,
                                      last.faults[1], last.faults[2])
           l == linux_make_localhost_result(last.service, last.hints, heap,
                                            last.faults[1], last.faults[2])
       IN  /\ last' = [op |-> "make_localhost_result", service |-> last.service,
                       hints |-> last.hints, faults |-> last.faults,
                       heap_before |-> heap, dylib |-> d, linux |-> l]
           /\ heap' = d.heap
    /\ UNCHANGED <<real_async_start, real_getaddrinfo, hookHandedOut,
                   firstLookup, regWrites, threadVars>>

NextPure == Classify \/ Build

SpecPure == InitPure /\ [][NextPure]_vars

-----------------------------------------------------------------------------
\* The last 10 bytes of a string of at least 10 bytes are ".localhost".
EndsInDotLocalhost(str) ==
    /\ Len(str) >= 10
    /\ \A i \in 1..10 : str[Len(str) - 10 + i] = DotLocalhost[i]

\* C11: for every hostname, null and empty included, is_localhost_domain is 1
\* iff the hostname is non-null, at least 10 bytes long and its last 10 bytes
\* are exactly ".localhost", and 0 otherwise; "foo.localhost" and ".localhost"
\* are reserved, "foolocalhost", "localhost", "x.LOCALHOST", "foo.localhost.",
\* "" and null are not; the two files' classifiers agree.
C11_Classifier ==
    last.op = "is_localhost_domain"
    => /\ last.dylib \in {0, 1}
       /\ last.dylib = 1 <=> (~IsNull(last.hostname)
                                /\ EndsInDotLocalhost(Deref(last.hostname)))
       /\ last.linux = last.dylib
       /\ last.hostname \in {Ptr(Foo \o DotLocalhost), Ptr(DotLocalhost)}
            => last.dylib = 1
       /\ last.hostname \in {Ptr(Foo \o BareLocalhost), Ptr(BareLocalhost),
                             Ptr(<<"x">> \o UpperDotLocalhost),
                             Ptr(Foo \o DotLocalhost \o <<".">>), Ptr(<<>>), NullPtr}
            => last.dylib = 0

\* The bare 10-byte ".localhost" was classified as reserved.
C11_Witness ==
    /\ last.op = "is_localhost_domain"
    /\ last.hostname = Ptr(DotLocalhost)
    /\ last.dylib = 1
    /\ last.linux = 1

-----------------------------------------------------------------------------
(* Vocabulary of the builder's properties *)

Built(l) == l.op = "make_localhost_result" /\ ~IsNull(l.dylib.result) /\ ~IsNull(l.linux.result)
BuiltRecords(l) == {Deref(l.dylib.result), Deref(l.linux.result)}

HintsSocktypeOr0(l) == IF IsNull(l.hints) THEN 0 ELSE Deref(l.hints).ai_socktype
HintsProtocolOr0(l) == IF IsNull(l.hints) THEN 0 ELSE Deref(l.hints).ai_protocol
HintsFlagsOr0(l) == IF IsNull(l.hints) THEN 0 ELSE Deref(l.hints).ai_flags

\* C12 as claimed: flags are copied (0 without hints); when hints are absent or
\* either of the copied socket type and protocol is 0 the record is
\* stream / TCP, otherwise both are the hints' values; neither is ever 0.
C12_JointDefault ==
    Built(last)
    => \A r \in BuiltRecords(last) :
        /\ r.ai_flags = HintsFlagsOr0(last)
        /\ IF HintsSocktypeOr0(last) = 0 \/ HintsProtocolOr0(last) = 0
           THEN r.ai_socktype = 1 /\ r.ai_protocol = 6
           ELSE r.ai_socktype = Deref(last.hints).ai_socktype
                /\ r.ai_protocol = Deref(last.hints).ai_protocol
        /\ r.ai_socktype # 0
        /\ r.ai_protocol # 0

\* The value of a string of decimal digits, from its last digit.
RECURSIVE DecimalValue(_)
DecimalValue(str) ==
    IF str = <<>> THEN 0
    ELSE 10 * DecimalValue(SubSeq(str, 1, Len(str) - 1)) + DigitVal(str[Len(str)])

AllDigits(str) == Len(str) > 0 /\ \A i \in 1..Len(str) : IsDigit(str[i])
PositiveIntegerString(p) ==
    ~IsNull(p) /\ AllDigits(Deref(p)) /\ DecimalValue(Deref(p)) > 0

\* Absent, without a leading digit, zero, or a minus sign before the digits.
ZeroPortService(p) ==
    \/ IsNull(p)
    \/ Deref(p) = <<>>
    \/ ~IsDigit(Deref(p)[1])
    \/ (AllDigits(Deref(p)) /\ DecimalValue(Deref(p)) = 0)

PortOf(r) == ntohs(r.ai_addr.sin_port)

\* C13 as claimed: the port read back in host order is the service's value
\* for every positive-integer service string, and 0 for an absent,
\* non-numeric, zero or negative service.
C13_PortIsValue ==
    Built(last)
    => \A r \in BuiltRecords(last) :
        /\ PositiveIntegerString(last.service)
             => PortOf(r) = DecimalValue(Deref(last.service))
        /\ ZeroPortService(last.service) => PortOf(r) = 0

\* C13 amended: the port read back in host order is the service's value
\* modulo 65536 for every positive-integer service string, and 0 for an
\* absent, non-numeric, zero or negative service; the two bytes are stored
\* high byte first.
C13_PortIsValueMod65536 ==
    Built(last)
    => \A r \in BuiltRecords(last) :
        /\ PositiveIntegerString(last.service)
             => /\ PortOf(r) = DecimalValue(Deref(last.service)) % 65536
                /\ r.ai_addr.sin_port[1] = (DecimalValue(Deref(last.service)) \div 256) % 256
        /\ ZeroPortService(last.service) => PortOf(r) = 0

\* The service "70000" gave port 4464.
C13_Witness ==
    /\ Built(last)
    /\ last.service = Ptr(<<"7", "0", "0", "0", "0">>)
    /\ PortOf(Deref(last.dylib.result)) = 4464
    /\ PortOf(Deref(last.linux.result)) = 4464

-----------------------------------------------------------------------------
(* Vocabulary of the allocation and resolver-lookup properties *)

IsLinux(l) == l.op = "linux_getaddrinfo"
FreeBefore(l) == Cardinality(Addrs \ l.heap_before)
AllocSucceeds(l) == l.faults = <<FALSE, FALSE>> /\ FreeBefore(l) >= 2
AllocFails(l) == l.faults[1] \/ l.faults[2] \/ FreeBefore(l) < 2
BuildAttempted(l) == (IsSync(l) \/ IsAsync(l)) /\ Len(l.out.builds) = 1
LookupFailed(l) == IsLinux(l) /\ l.rg_before = NULL /\ l.dlsym_ret = NULL

\* C14: a synchronous call with a reserved hostname, hints absent or not
\* IPv6, and allocation succeeding returns 0 with exactly one 127.0.0.1
\* record and no call to the real resolver, in every state, also when the
\* real resolver's symbol is not and cannot be located.
C14_ReservedAlwaysLoopback ==
    (IsSync(last) /\ ReservedName(last.node) /\ ~HintsInet6(last) /\ AllocSucceeds(last))
    => /\ last.out.ret = 0
       /\ ~IsNull(last.out.res_out)
       /\ Deref(last.out.res_out).ai_addr.sin_addr = Loopback
       /\ Deref(last.out.res_out).ai_next = NULL
       /\ last.out.real_calls = <<>>

\* C15: a Linux synchronous call whose lookup of the real resolver fails
\* returns EAI_SYSTEM, calls through no function pointer, builds nothing and
\* leaves *res unwritten; no call ever goes through a null pointer; the
\* failure leaves real_getaddrinfo unset and every call that finds it unset
\* looks the symbol up again; once set, real_getaddrinfo never changes.
C15_MissingResolver ==
    /\ [](LookupFailed(last)
            => /\ last.out.ret = EAI_SYSTEM
               /\ last.out.real_calls = <<>>
               /\ last.out.builds = <<>>
               /\ IsNull(last.out.res_out)
               /\ last.out.heap = last.heap_before
               /\ real_getaddrinfo = NULL)
    /\ [](IsLinux(last)
            => /\ last.out.lookups = (IF last.rg_before = NULL THEN 1 ELSE 0)
               /\ \A i \in 1..Len(last.out.real_calls) : last.out.real_calls[i].fn # NULL
               /\ (last.rg_before = NULL => real_getaddrinfo = last.dlsym_ret))
    /\ [][real_getaddrinfo # NULL => real_getaddrinfo' = real_getaddrinfo]_vars

\* A call for an ordinary hostname found no resolver and returned EAI_SYSTEM.
C15_Witness ==
    /\ LookupFailed(last)
    /\ last.node = Ptr(BCom)
    /\ last.out.ret = EAI_SYSTEM
    /\ real_getaddrinfo = NULL

\* C17 as claimed: no synchronous call and no call to the Replacement Entry
\* Point changes the capture register or any other process-wide variable.
C17_OnlyRegisterMutable ==
    (IsSync(last) \/ IsAsync(last))
    => /\ real_async_start = last.reg_before
       /\ IsLinux(last) => real_getaddrinfo = last.rg_before

\* C17 amended: the capture register changes only in hooked_dlsym called for
\* the async resolver name, and no synchronous or asynchronous call changes
\* it; the one other process-wide variable, the Linux real_getaddrinfo, is
\* written only by the Linux synchronous entry point and only while unset.
C17_SharedStateFrame ==
    /\ []((IsSync(last) \/ IsAsync(last)) => real_async_start = last.reg_before)
    /\ []((IsLinux(last) /\ last.rg_before # NULL) => real_getaddrinfo = last.rg_before)
    /\ [][real_async_start' # real_async_start
            => IsDlsym(last') /\ last'.symbol = Ptr(AsyncSymbol)]_vars
    /\ [][real_getaddrinfo' # real_getaddrinfo
            => IsLinux(last') /\ real_getaddrinfo = NULL]_vars

\* With the register captured: a Linux call with the resolver cached, and
\* both variables as they were.
C17_Witness ==
    /\ IsLinux(last)
    /\ last.rg_before # NULL
    /\ last.reg_before # NULL
    /\ real_getaddrinfo = last.rg_before
    /\ real_async_start = last.reg_before

\* C18: a build returns null exactly when one of its two allocations fails;
\* a failed build leaves the heap as it was (the record allocated before a
\* failed payload allocation is freed) and a successful one adds exactly the
\* record and its payload; after a failed build the synchronous entry point
\* forwards the original arguments to the real resolver and returns its
\* status, and the Replacement Entry Point delegates when captured and
\* reports -1 otherwise, neither handing out a record.
C18_AllocationFailure ==
    /\ BuildAttempted(last)
         => /\ IsNull(last.out.builds[1]) <=> AllocFails(last)
            /\ heap = last.out.heap
    /\ (BuildAttempted(last) /\ BuildFailed(last))
         => /\ heap = last.heap_before
            /\ IsSync(last) => Forwarded(last)
            /\ IsAsync(last)
                 => /\ \A i \in 1..Len(last.out.cb_calls) :
                          /\ last.out.cb_calls[i].status = AsyncFailStatus
                          /\ IsNull(last.out.cb_calls[i].res)
                    /\ IsNull(last.out.port_out)
                    /\ IF last.reg_before # NULL
                       THEN /\ Len(last.out.real_calls) = 1
                            /\ last.out.real_calls[1].fn = last.reg_before
                            /\ last.out.real_calls[1].node = last.node
                            /\ last.out.ret = last.out.real_calls[1].ret
                            /\ last.out.cb_calls = <<>>
                       ELSE /\ last.out.real_calls = <<>>
                            /\ last.out.ret = AsyncFailStatus
    /\ (BuildAttempted(last) /\ BuildOk(last))
         => /\ Deref(last.out.builds[1]).at \notin last.heap_before
            /\ Deref(last.out.builds[1]).ai_addr.at \notin last.heap_before
            /\ Deref(last.out.builds[1]).at # Deref(last.out.builds[1]).ai_addr.at
            /\ heap = last.heap_before
                        \cup {Deref(last.out.builds[1]).at,
                              Deref(last.out.builds[1]).ai_addr.at}

\* The payload allocation failed after the record was allocated, and the
\* synchronous call forwarded to the real resolver with the heap as before.
C18_Witness ==
    /\ IsSync(last)
    /\ BuildAttempted(last)
    /\ last.faults = <<FALSE, TRUE>>
    /\ FreeBefore(last) >= 1
    /\ IsNull(last.out.builds[1])
    /\ heap = last.heap_before
    /\ Forwarded(last)

CompletedSynthetic(o) ==
    /\ Len(o.cb_calls) = 1
    /\ o.cb_calls[1].status = 0
    /\ ~IsNull(o.cb_calls[1].res)
    /\ o.real_calls = <<>>
    /\ o.ret = 0
CompletedDegraded(o) ==
    /\ Len(o.cb_calls) = 1
    /\ o.cb_calls[1].status = -1
    /\ IsNull(o.cb_calls[1].res)
    /\ o.real_calls = <<>>
    /\ o.ret = -1
CompletedByDelegation(o) ==
    /\ Len(o.real_calls) = 1
    /\ o.real_calls[1].fn # NULL
    /\ o.cb_calls = <<>>

\* C19: every call to the Replacement Entry Point with a non-null callback
\* completes in exactly one of three ways: the callback once with status 0
\* and a record, returning 0; the callback once with status -1 and no record,
\* returning -1; or one call of the captured real entry point and no callback
\* from the replacement.
C19_OneCompletion ==
    (IsAsync(last) /\ last.callback # NULL)
    => /\ Cardinality({k \in 1..3 :
                         \/ k = 1 /\ CompletedSynthetic(last.out)
                         \/ k = 2 /\ CompletedDegraded(last.out)
                         \/ k = 3 /\ CompletedByDelegation(last.out)}) = 1
       /\ Len(last.out.cb_calls) + Len(last.out.real_calls) = 1
       /\ \A i \in 1..Len(last.out.cb_calls) : last.out.cb_calls[i].fn = last.callback
       /\ \A i \in 1..Len(last.out.real_calls) : last.out.real_calls[i].fn = last.reg_before

\* After capture, a failed build with a non-null callback was delegated and
\* the replacement made no callback of its own.
C19_Witness ==
    /\ IsAsync(last)
    /\ last.callback # NULL
    /\ last.reg_before # NULL
    /\ BuildFailed(last)
    /\ CompletedByDelegation(last.out)
    /\ ~CompletedSynthetic(last.out)
    /\ ~CompletedDegraded(last.out)

-----------------------------------------------------------------------------
(* The synchronous entry point called twice with the same arguments.  last   *)
(* holds both calls' observations; the operations run before, between and    *)
(* after the two calls change the state and leave last alone.                *)

ReservedNodes == {n \in Nodes : is_localhost_domain(n) # 0}

\* One call of the synchronous entry point of either library in the current
\* state, as the observation the whole-call actions record.
SyncCall(linux, node, service, hints, res, f, realRet, dlsymRet) ==
    IF linux
    THEN [op |-> "linux_getaddrinfo", node |-> node, service |-> service,
          hints |-> hints, res |-> res, faults |-> f, dlsym_ret |-> dlsymRet,
          heap_before |-> heap, rg_before |-> real_getaddrinfo,
          reg_before |-> real_async_start,
          out |-> linux_getaddrinfo(node, service, hints, res, heap, f[1], f[2],
                                    realRet, real_getaddrinfo, dlsymRet)]
    ELSE [op |-> "hooked_getaddrinfo", node |-> node, service |-> service,
          hints |-> hints, res |-> res, faults |-> f,
          heap_before |-> heap, reg_before |-> real_async_start,
          out |-> hooked_getaddrinfo(node, service, hints, res, heap, f[1], f[2],
                                     realRet)]

ResolverAfter(call) ==
    IF call.op = "linux_getaddrinfo" THEN call.out.real_getaddrinfo ELSE real_getaddrinfo

LookupsOf(linux) == IF linux THEN LinuxLookups(real_getaddrinfo) ELSE {NULL}
HintsFor(linux) == IF linux THEN HintsOf(LINUX_AF_INET6) ELSE HintsOf(AF_INET6)

InitTwice ==
    /\ real_async_start = NULL
    /\ real_getaddrinfo = NULL
    /\ heap = {}
    /\ hookHandedOut = FALSE
    /\ firstLookup = NULL
    /\ regWrites = 0
    /\ last = [op |-> "start"]
    /\ pc = [t \in Threads |-> "idle"]
    /\ t_handle = [t \in Threads |-> NULL]
    /\ t_symbol = [t \in Threads |-> NullPtr]
    /\ t_result = [t \in Threads |-> NULL]
    /\ t_ret = [t \in Threads |-> NULL]
    /\ t_calls = [t \in Threads |-> 0]

FirstCall ==
    /\ last.op = "start"
    /\ \E linux \in BOOLEAN, node \in ReservedNodes, service \in Services, res \in ResPtrs :
       \E hints \in HintsFor(linux), f \in AllocFaults, realRet \in RealStatuses,
          dlsymRet \in LookupsOf(linux) :
        LET call == SyncCall(linux, node, service, hints, res, f, realRet, dlsymRet)
        IN  /\ StatusConsulted(call.out, realRet)
            /\ heap' = call.out.heap
            /\ real_getaddrinfo' = ResolverAfter(call)
            /\ last' = [op |-> "first", first |-> call]
    /\ UNCHANGED <<real_async_start, hookHandedOut, firstLookup, regWrites, threadVars>>

\* The same node, service, hints and res as the first call.
SecondCall ==
    /\ last.op = "first"
    /\ \E f \in AllocFaults, realRet \in RealStatuses,
          dlsymRet \in LookupsOf(last.first.op = "linux_getaddrinfo") :
        LET call == SyncCall(last.first.op = "linux_getaddrinfo", last.first.node,
                             last.first.service, last.first.hints, last.first.res,
                             f, realRet, dlsymRet)
        IN  /\ StatusConsulted(call.out, realRet)
            /\ heap' = call.out.heap
            /\ real_getaddrinfo' = ResolverAfter(call)
            /\ last' = [op |-> "second", first |-> last.first, second |-> call]
    /\ UNCHANGED <<real_async_start, hookHandedOut, firstLookup, regWrites, threadVars>>

\* The other operations act on last only through the heap and the two
\* pointers, which their service and hints do not influence.
OtherServices == {NullPtr}
OtherHints == {NullPtr}

OtherSync ==
    /\ \E linux \in BOOLEAN, node \in Nodes, service \in OtherServices, res \in ResPtrs :
       \E hints \in OtherHints, f \in FaultsFor(node), realRet \in {0},
          dlsymRet \in LookupsOf(linux) :
        LET call == SyncCall(linux, node, service, hints, res, f, realRet, dlsymRet)
        IN  /\ heap' = call.out.heap
            /\ real_getaddrinfo' = ResolverAfter(call)
    /\ UNCHANGED <<real_async_start, hookHandedOut, firstLookup, regWrites, last,
                   threadVars>>

OtherAsync ==
    /\ hookHandedOut
    /\ \E port \in PortPtrs, node \in Nodes, service \in OtherServices,
          hints \in OtherHints, callback \in Callbacks, context \in Contexts :
       \E f \in FaultsFor(node), realRet \in {0} :
        LET out == hooked_getaddrinfo_async_start(port, node, service, hints, callback,
                        context, real_async_start, heap, f[1], f[2], realRet)
        IN  heap' = out.heap
    /\ UNCHANGED <<real_async_start, real_getaddrinfo, hookHandedOut, firstLookup,
                   regWrites, last, threadVars>>

OtherDlsym ==
    /\ \E handle \in Handles, symbol \in Symbols, result \in {NULL} \cup FnAddrs :
        LET out == hooked_dlsym(handle, symbol, real_async_start, result)
        IN  /\ real_async_start' = out.reg
            /\ regWrites' = regWrites + out.stores
            /\ hookHandedOut' = (hookHandedOut \/ out.ret = HookAddr)
            /\ firstLookup' = FirstLookupAfter(symbol, result)
    /\ UNCHANGED <<real_getaddrinfo, heap, last, threadVars>>

NextTwice == FirstCall \/ SecondCall \/ OtherSync \/ OtherAsync \/ OtherDlsym

SpecTwice == InitTwice /\ [][NextTwice]_vars

\* The fields of a record that the caller reads, without the two addresses.
FieldsOf(r) ==
    <<r.ai_flags, r.ai_family, r.ai_socktype, r.ai_protocol, r.ai_addrlen,
      r.ai_addr.sin_family, r.ai_addr.sin_addr, r.ai_addr.sin_port,
      r.ai_canonname, r.ai_next>>
BlocksOf(r) == {r.at, r.ai_addr.at}

\* C16: two synchronous calls with the same reserved hostname, service and
\* hints (not IPv6), allocation succeeding in both, with any operations
\* before and between them, return the same status and two records that are
\* equal field by field and are distinct allocations, the first still
\* allocated after the second.
C16_Idempotent ==
    (last.op = "second" /\ ~HintsInet6(last.first)
       /\ AllocSucceeds(last.first) /\ AllocSucceeds(last.second))
    => /\ last.first.out.ret = last.second.out.ret
       /\ ~IsNull(last.first.out.res_out)
       /\ ~IsNull(last.second.out.res_out)
       /\ FieldsOf(Deref(last.first.out.res_out)) = FieldsOf(Deref(last.second.out.res_out))
       /\ BlocksOf(Deref(last.first.out.res_out))
            \cap BlocksOf(Deref(last.second.out.res_out)) = {}
       /\ BlocksOf(Deref(last.first.out.res_out)) \subseteq heap

====
